---------------------------- MODULE Spec2Model ----------------------------
(***************************************************************************)
(* audiconnectpy/model.py: the record types of the vehicle data model and  *)
(* their decoding (from_dict) and encoding (to_dict).                      *)
(*                                                                         *)
(* The record types are mashumaro dataclasses.  Every one derives from     *)
(* Base, whose __pre_deserialize__ hook rewrites the keys of the raw       *)
(* mapping with camel2snake before the fields are looked up.  The field    *)
(* table below is the list of dataclass fields of model.py, one definition *)
(* per class, in declaration order.                                        *)
(*                                                                         *)
(* JSON strings, and with them the keys of JSON objects, are sequences of  *)
(* one-character strings, so that camel2snake works on the characters.     *)
(* Attribute names of decoded records are TLA+ strings.                    *)
(***************************************************************************)
EXTENDS Integers, Sequences, FiniteSets, TLC

VARIABLES
  cls,      \* the record type from_dict is called on
  raw0,     \* the raw document as the caller built it
  raw,      \* the same object as the caller sees it now
  hooked,   \* what Base.__pre_deserialize__ returned for the document
  out,      \* outcome of the last from_dict(raw)
  prev,     \* outcome of the from_dict before it
  enc,      \* to_dict() of the decoded record
  back,     \* outcome of from_dict(enc)
  nadded,   \* how many unknown keys were added to the document
  pc        \* "start", "decoded", "again", "extended", "encoded", "roundtrip"

vars == <<cls, raw0, raw, hooked, out, prev, enc, back, nadded, pc>>

(***************************************************************************)
(* Bounds of the explored inputs.                                          *)
(***************************************************************************)
\* keys in one raw document, nested objects included
MaxKeys == 3
\* keys the schema knows in one JSON object of a raw document
MaxWidth == (MaxKeys + 1) \div 2

(***************************************************************************)
(* Values.  A JSON value is None, a bool, an int, a float, a str, a dict   *)
(* or a list; a decoded value may also be a datetime or a record.          *)
(***************************************************************************)
None == [none |-> TRUE]
PyBool(b) == [bool |-> b]
PyInt(n) == [int |-> n]
PyFloat(n) == [float |-> n]
PyStr(s) == [str |-> s]
PyDict(f) == [dict |-> f]
PyList(q) == [list |-> q]
DateTime(t) == [datetime |-> t]
Obj(c, kw) == [cls |-> c, attrs |-> kw]

IsBool(v) == DOMAIN v = {"bool"}
IsInt(v) == DOMAIN v = {"int"}
IsFloat(v) == DOMAIN v = {"float"}
IsStr(v) == DOMAIN v = {"str"}
IsDict(v) == DOMAIN v = {"dict"}
IsList(v) == DOMAIN v = {"list"}
IsDateTime(v) == DOMAIN v = {"datetime"}

EmptyMap == [k \in {} |-> None]

\* The outcome of a call: a value or a raised exception, together with
\* the argument object as the call left it.
Return(v, a) == [ok |-> TRUE, val |-> v, arg |-> a]
Raise(e, a) == [ok |-> FALSE, exc |-> e, arg |-> a]

(***************************************************************************)
(* The schema: model.py's dataclasses.  name is the attribute, json the    *)
(* attribute name as a JSON key, alias the field_options alias (<<>> when  *)
(* none is declared), req whether the field has no default, kind the       *)
(* field's type or its declared deserialize option, of the nested class.   *)
(***************************************************************************)
\* class Position(Base)
Position ==
  <<
    [name |-> "longitude", json |-> <<"l","o","n","g","i","t","u","d","e">>,
     alias |-> <<"l","o","n">>, req |-> FALSE, kind |-> "float", of |-> ""],
    [name |-> "latitude", json |-> <<"l","a","t","i","t","u","d","e">>,
     alias |-> <<"l","a","t">>, req |-> FALSE, kind |-> "float", of |-> ""],
    [name |-> "last_access", json |-> <<"l","a","s","t","_","a","c","c","e","s","s">>,
     alias |-> <<"c","a","r","_","c","a","p","t","u","r","e","d","_","t","i","m","e","s","t","a","m","p">>, req |-> FALSE, kind |-> "datetime", of |-> ""]
  >>

\* class Location(Base)
Location ==
  <<
    [name |-> "proprietaries", json |-> <<"p","r","o","p","r","i","e","t","a","r","i","e","s">>,
     alias |-> <<>>, req |-> FALSE, kind |-> "list_dict", of |-> ""],
    [name |-> "addresses", json |-> <<"a","d","d","r","e","s","s","e","s">>,
     alias |-> <<>>, req |-> FALSE, kind |-> "list_dict", of |-> ""]
  >>

\* class Access(Base)
Access ==
  <<
    [name |-> "access_status", json |-> <<"a","c","c","e","s","s","_","s","t","a","t","u","s">>,
     alias |-> <<>>, req |-> FALSE, kind |-> "record", of |-> "AccessStatus"]
  >>

\* class AccessStatus(Base)
AccessStatus ==
  <<
    [name |-> "car_captured_timestamp", json |-> <<"c","a","r","_","c","a","p","t","u","r","e","d","_","t","i","m","e","s","t","a","m","p">>,
     alias |-> <<>>, req |-> TRUE, kind |-> "datetime", of |-> ""],
    [name |-> "overall_status", json |-> <<"o","v","e","r","a","l","l","_","s","t","a","t","u","s">>,
     alias |-> <<>>, req |-> FALSE, kind |-> "str", of |-> ""],
    [name |-> "door_lock_status", json |-> <<"d","o","o","r","_","l","o","c","k","_","s","t","a","t","u","s">>,
     alias |-> <<>>, req |-> FALSE, kind |-> "Locked", of |-> ""],
    [name |-> "doors", json |-> <<"d","o","o","r","s">>,
     alias |-> <<>>, req |-> FALSE, kind |-> "doors_status", of |-> ""],
    [name |-> "windows", json |-> <<"w","i","n","d","o","w","s">>,
     alias |-> <<>>, req |-> FALSE, kind |-> "windows_status", of |-> ""]
  >>

\* class Charging(Base)
Charging ==
  <<
    [name |-> "battery_status", json |-> <<"b","a","t","t","e","r","y","_","s","t","a","t","u","s">>,
     alias |-> <<>>, req |-> FALSE, kind |-> "record", of |-> "BatteryStatus"],
    [name |-> "charging_status", json |-> <<"c","h","a","r","g","i","n","g","_","s","t","a","t","u","s">>,
     alias |-> <<>>, req |-> FALSE, kind |-> "record", of |-> "ChargingStatus"],
    [name |-> "charging_settings", json |-> <<"c","h","a","r","g","i","n","g","_","s","e","t","t","i","n","g","s">>,
     alias |-> <<>>, req |-> FALSE, kind |-> "record", of |-> "ChargingSettings"],
    [name |-> "plug_status", json |-> <<"p","l","u","g","_","s","t","a","t","u","s">>,
     alias |-> <<>>, req |-> FALSE, kind |-> "record", of |-> "PlugStatus"],
    [name |-> "charge_mode", json |-> <<"c","h","a","r","g","e","_","m","o","d","e">>,
     alias |-> <<>>, req |-> FALSE, kind |-> "record", of |-> "ChargeMode"]
  >>

\* class BatteryStatus(Base)
BatteryStatus ==
  <<
    [name |-> "current_soc_pct", json |-> <<"c","u","r","r","e","n","t","_","s","o","c","_","p","c","t">>,
     alias |-> <<"c","u","r","r","e","n","t","S","O","C","_","p","c","t">>, req |-> FALSE, kind |-> "int", of |-> ""],
    [name |-> "cruising_range_electric_km", json |-> <<"c","r","u","i","s","i","n","g","_","r","a","n","g","e","_","e","l","e","c","t","r","i","c","_","k","m">>,
     alias |-> <<>>, req |-> FALSE, kind |-> "int", of |-> ""]
  >>

\* class ChargingStatus(Base)
ChargingStatus ==
  <<
    [name |-> "remaining", json |-> <<"r","e","m","a","i","n","i","n","g">>,
     alias |-> <<"r","e","m","a","i","n","i","n","g","C","h","a","r","g","i","n","g","T","i","m","e","T","o","C","o","m","p","l","e","t","e","_","m","i","n">>, req |-> FALSE, kind |-> "int", of |-> ""],
    [name |-> "charging_state", json |-> <<"c","h","a","r","g","i","n","g","_","s","t","a","t","e">>,
     alias |-> <<>>, req |-> FALSE, kind |-> "eq_charging", of |-> ""],
    [name |-> "charge_mode", json |-> <<"c","h","a","r","g","e","_","m","o","d","e">>,
     alias |-> <<>>, req |-> FALSE, kind |-> "str", of |-> ""],
    [name |-> "charge_power_kw", json |-> <<"c","h","a","r","g","e","_","p","o","w","e","r","_","k","w">>,
     alias |-> <<>>, req |-> FALSE, kind |-> "float", of |-> ""],
    [name |-> "charge_rate_kmph", json |-> <<"c","h","a","r","g","e","_","r","a","t","e","_","k","m","p","h">>,
     alias |-> <<>>, req |-> FALSE, kind |-> "int", of |-> ""],
    [name |-> "charge_type", json |-> <<"c","h","a","r","g","e","_","t","y","p","e">>,
     alias |-> <<>>, req |-> FALSE, kind |-> "str", of |-> ""],
    [name |-> "charge_settings", json |-> <<"c","h","a","r","g","e","_","s","e","t","t","i","n","g","s">>,
     alias |-> <<>>, req |-> FALSE, kind |-> "str", of |-> ""]
  >>

\* class ChargingSettings(Base)
ChargingSettings ==
  <<
    [name |-> "max_charge_current_ac", json |-> <<"m","a","x","_","c","h","a","r","g","e","_","c","u","r","r","e","n","t","_","a","c">>,
     alias |-> <<>>, req |-> FALSE, kind |-> "str", of |-> ""],
    [name |-> "aut_unlock_plug_when_charged", json |-> <<"a","u","t","_","u","n","l","o","c","k","_","p","l","u","g","_","w","h","e","n","_","c","h","a","r","g","e","d">>,
     alias |-> <<>>, req |-> FALSE, kind |-> "OnOff", of |-> ""],
    [name |-> "auto_unlock_plug_when_charged_ac", json |-> <<"a","u","t","o","_","u","n","l","o","c","k","_","p","l","u","g","_","w","h","e","n","_","c","h","a","r","g","e","d","_","a","c">>,
     alias |-> <<>>, req |-> FALSE, kind |-> "OnOff", of |-> ""],
    [name |-> "target_soc_pct", json |-> <<"t","a","r","g","e","t","_","s","o","c","_","p","c","t">>,
     alias |-> <<"t","a","r","g","e","t","S","O","C","_","p","c","t">>, req |-> FALSE, kind |-> "int", of |-> ""]
  >>

\* class PlugStatus(Base)
PlugStatus ==
  <<
    [name |-> "plug_connection_state", json |-> <<"p","l","u","g","_","c","o","n","n","e","c","t","i","o","n","_","s","t","a","t","e">>,
     alias |-> <<>>, req |-> FALSE, kind |-> "eq_connected", of |-> ""],
    [name |-> "plug_lock_state", json |-> <<"p","l","u","g","_","l","o","c","k","_","s","t","a","t","e">>,
     alias |-> <<>>, req |-> FALSE, kind |-> "Locked", of |-> ""],
    [name |-> "external_power", json |-> <<"e","x","t","e","r","n","a","l","_","p","o","w","e","r">>,
     alias |-> <<>>, req |-> FALSE, kind |-> "str", of |-> ""],
    [name |-> "led_color", json |-> <<"l","e","d","_","c","o","l","o","r">>,
     alias |-> <<>>, req |-> FALSE, kind |-> "str", of |-> ""]
  >>

\* class ChargeMode(Base)
ChargeMode ==
  <<
    [name |-> "preferred_charge_mode", json |-> <<"p","r","e","f","e","r","r","e","d","_","c","h","a","r","g","e","_","m","o","d","e">>,
     alias |-> <<>>, req |-> FALSE, kind |-> "str", of |-> ""],
    [name |-> "available_charge_modes", json |-> <<"a","v","a","i","l","a","b","l","e","_","c","h","a","r","g","e","_","m","o","d","e","s">>,
     alias |-> <<>>, req |-> FALSE, kind |-> "list_str", of |-> ""]
  >>

\* class Climatisation(Base)
Climatisation ==
  <<
    [name |-> "window_heating_status", json |-> <<"w","i","n","d","o","w","_","h","e","a","t","i","n","g","_","s","t","a","t","u","s">>,
     alias |-> <<>>, req |-> FALSE, kind |-> "record", of |-> "WindowHeatingStatus"],
    [name |-> "climatisation_status", json |-> <<"c","l","i","m","a","t","i","s","a","t","i","o","n","_","s","t","a","t","u","s">>,
     alias |-> <<>>, req |-> FALSE, kind |-> "record", of |-> "ClimatisationStatus"],
    [name |-> "climatisation_settings", json |-> <<"c","l","i","m","a","t","i","s","a","t","i","o","n","_","s","e","t","t","i","n","g","s">>,
     alias |-> <<>>, req |-> FALSE, kind |-> "record", of |-> "ClimatisationSettings"]
  >>

\* class WindowHeatingStatus(Base)
WindowHeatingStatus ==
  <<
    [name |-> "window_heating_status", json |-> <<"w","i","n","d","o","w","_","h","e","a","t","i","n","g","_","s","t","a","t","u","s">>,
     alias |-> <<>>, req |-> FALSE, kind |-> "list_dict", of |-> ""]
  >>

\* class ClimatisationStatus(Base)
ClimatisationStatus ==
  <<
    [name |-> "remaining_climatisation_time_min", json |-> <<"r","e","m","a","i","n","i","n","g","_","c","l","i","m","a","t","i","s","a","t","i","o","n","_","t","i","m","e","_","m","i","n">>,
     alias |-> <<>>, req |-> FALSE, kind |-> "int", of |-> ""],
    [name |-> "climatisation_state", json |-> <<"c","l","i","m","a","t","i","s","a","t","i","o","n","_","s","t","a","t","e">>,
     alias |-> <<>>, req |-> FALSE, kind |-> "OnOff", of |-> ""]
  >>

\* class ClimatisationSettings(Base)
ClimatisationSettings ==
  <<
    [name |-> "target_temperature_C", json |-> <<"t","a","r","g","e","t","_","t","e","m","p","e","r","a","t","u","r","e","_","C">>,
     alias |-> <<>>, req |-> FALSE, kind |-> "int", of |-> ""],
    [name |-> "target_temperature_F", json |-> <<"t","a","r","g","e","t","_","t","e","m","p","e","r","a","t","u","r","e","_","F">>,
     alias |-> <<>>, req |-> FALSE, kind |-> "int", of |-> ""],
    [name |-> "unit_in_car", json |-> <<"u","n","i","t","_","i","n","_","c","a","r">>,
     alias |-> <<>>, req |-> FALSE, kind |-> "str", of |-> ""],
    [name |-> "climatization_at_unlock", json |-> <<"c","l","i","m","a","t","i","z","a","t","i","o","n","_","a","t","_","u","n","l","o","c","k">>,
     alias |-> <<>>, req |-> FALSE, kind |-> "bool", of |-> ""],
    [name |-> "window_heating_enabled", json |-> <<"w","i","n","d","o","w","_","h","e","a","t","i","n","g","_","e","n","a","b","l","e","d">>,
     alias |-> <<>>, req |-> FALSE, kind |-> "bool", of |-> ""],
    [name |-> "zone_front_left_enabled", json |-> <<"z","o","n","e","_","f","r","o","n","t","_","l","e","f","t","_","e","n","a","b","l","e","d">>,
     alias |-> <<>>, req |-> FALSE, kind |-> "bool", of |-> ""],
    [name |-> "zone_front_right_enabled", json |-> <<"z","o","n","e","_","f","r","o","n","t","_","r","i","g","h","t","_","e","n","a","b","l","e","d">>,
     alias |-> <<>>, req |-> FALSE, kind |-> "bool", of |-> ""],
    [name |-> "zone_rear_left_enabled", json |-> <<"z","o","n","e","_","r","e","a","r","_","l","e","f","t","_","e","n","a","b","l","e","d">>,
     alias |-> <<>>, req |-> FALSE, kind |-> "bool", of |-> ""],
    [name |-> "zone_rear_right_enabled", json |-> <<"z","o","n","e","_","r","e","a","r","_","r","i","g","h","t","_","e","n","a","b","l","e","d">>,
     alias |-> <<>>, req |-> FALSE, kind |-> "bool", of |-> ""]
  >>

\* class ClimatisationTimers(Base)
ClimatisationTimers ==
  <<
    [name |-> "climatisation_timers_status", json |-> <<"c","l","i","m","a","t","i","s","a","t","i","o","n","_","t","i","m","e","r","s","_","s","t","a","t","u","s">>,
     alias |-> <<>>, req |-> FALSE, kind |-> "record", of |-> "ClimatisationTimersStatus"]
  >>

\* class ClimatisationTimersStatus(Base)
ClimatisationTimersStatus ==
  <<
    [name |-> "time_in_car", json |-> <<"t","i","m","e","_","i","n","_","c","a","r">>,
     alias |-> <<>>, req |-> FALSE, kind |-> "strptime", of |-> ""],
    [name |-> "timers", json |-> <<"t","i","m","e","r","s">>,
     alias |-> <<>>, req |-> FALSE, kind |-> "list_record", of |-> "Timer"]
  >>

\* class Timer(Base)
Timer ==
  <<
    [name |-> "id", json |-> <<"i","d">>,
     alias |-> <<>>, req |-> TRUE, kind |-> "int", of |-> ""],
    [name |-> "enabled", json |-> <<"e","n","a","b","l","e","d">>,
     alias |-> <<>>, req |-> TRUE, kind |-> "bool", of |-> ""],
    [name |-> "single_timer", json |-> <<"s","i","n","g","l","e","_","t","i","m","e","r">>,
     alias |-> <<>>, req |-> TRUE, kind |-> "record", of |-> "SingleTimer"]
  >>

\* class SingleTimer(Base)
SingleTimer ==
  <<
    [name |-> "start", json |-> <<"s","t","a","r","t">>,
     alias |-> <<"s","t","a","r","t","D","a","t","e","T","i","m","e">>, req |-> TRUE, kind |-> "datetime", of |-> ""],
    [name |-> "target", json |-> <<"t","a","r","g","e","t">>,
     alias |-> <<"t","a","r","g","e","t","D","a","t","e","T","i","m","e">>, req |-> TRUE, kind |-> "datetime", of |-> ""]
  >>

\* class FuelStatus(Base)
FuelStatus ==
  <<
    [name |-> "range_status", json |-> <<"r","a","n","g","e","_","s","t","a","t","u","s">>,
     alias |-> <<>>, req |-> FALSE, kind |-> "record", of |-> "FuelRangeStatus"]
  >>

\* class FuelRangeStatus(Base)
FuelRangeStatus ==
  <<
    [name |-> "car_type", json |-> <<"c","a","r","_","t","y","p","e">>,
     alias |-> <<>>, req |-> FALSE, kind |-> "str", of |-> ""],
    [name |-> "primary_engine", json |-> <<"p","r","i","m","a","r","y","_","e","n","g","i","n","e">>,
     alias |-> <<>>, req |-> FALSE, kind |-> "record", of |-> "PrimaryEngine"],
    [name |-> "secondary_engine", json |-> <<"s","e","c","o","n","d","a","r","y","_","e","n","g","i","n","e">>,
     alias |-> <<>>, req |-> FALSE, kind |-> "record", of |-> "SecondaryEngine"],
    [name |-> "total_range_km", json |-> <<"t","o","t","a","l","_","r","a","n","g","e","_","k","m">>,
     alias |-> <<>>, req |-> FALSE, kind |-> "int", of |-> ""]
  >>

\* class PrimaryEngine(Base)
PrimaryEngine ==
  <<
    [name |-> "type", json |-> <<"t","y","p","e">>,
     alias |-> <<>>, req |-> FALSE, kind |-> "str", of |-> ""],
    [name |-> "current_soc_pct", json |-> <<"c","u","r","r","e","n","t","_","s","o","c","_","p","c","t">>,
     alias |-> <<>>, req |-> FALSE, kind |-> "str", of |-> ""],
    [name |-> "remaining_range_km", json |-> <<"r","e","m","a","i","n","i","n","g","_","r","a","n","g","e","_","k","m">>,
     alias |-> <<>>, req |-> FALSE, kind |-> "int", of |-> ""],
    [name |-> "current_fuel_level_pct", json |-> <<"c","u","r","r","e","n","t","_","f","u","e","l","_","l","e","v","e","l","_","p","c","t">>,
     alias |-> <<>>, req |-> FALSE, kind |-> "int", of |-> ""]
  >>

\* class SecondaryEngine(Base)
SecondaryEngine ==
  <<
    [name |-> "type", json |-> <<"t","y","p","e">>,
     alias |-> <<>>, req |-> FALSE, kind |-> "str", of |-> ""],
    [name |-> "current_soc_pct", json |-> <<"c","u","r","r","e","n","t","_","s","o","c","_","p","c","t">>,
     alias |-> <<>>, req |-> FALSE, kind |-> "str", of |-> ""],
    [name |-> "remaining_range_km", json |-> <<"r","e","m","a","i","n","i","n","g","_","r","a","n","g","e","_","k","m">>,
     alias |-> <<>>, req |-> FALSE, kind |-> "int", of |-> ""],
    [name |-> "current_fuel_level_pct", json |-> <<"c","u","r","r","e","n","t","_","f","u","e","l","_","l","e","v","e","l","_","p","c","t">>,
     alias |-> <<>>, req |-> FALSE, kind |-> "int", of |-> ""]
  >>

\* class OilLevel(Base)
OilLevel ==
  <<
    [name |-> "oil_level_status", json |-> <<"o","i","l","_","l","e","v","e","l","_","s","t","a","t","u","s">>,
     alias |-> <<>>, req |-> FALSE, kind |-> "record", of |-> "OilLevelStatus"]
  >>

\* class OilLevelStatus(Base)
OilLevelStatus ==
  <<
    [name |-> "value", json |-> <<"v","a","l","u","e">>,
     alias |-> <<>>, req |-> TRUE, kind |-> "bool", of |-> ""]
  >>

\* class VehicleLights(Base)
VehicleLights ==
  <<
    [name |-> "lights_status", json |-> <<"l","i","g","h","t","s","_","s","t","a","t","u","s">>,
     alias |-> <<>>, req |-> FALSE, kind |-> "record", of |-> "LightsStatus"]
  >>

\* class LightsStatus(Base)
LightsStatus ==
  <<
    [name |-> "lights", json |-> <<"l","i","g","h","t","s">>,
     alias |-> <<>>, req |-> FALSE, kind |-> "lights_status", of |-> ""]
  >>

\* class VehicleHealthInspection(Base)
VehicleHealthInspection ==
  <<
    [name |-> "maintenance_status", json |-> <<"m","a","i","n","t","e","n","a","n","c","e","_","s","t","a","t","u","s">>,
     alias |-> <<>>, req |-> FALSE, kind |-> "record", of |-> "MaintenanceStatus"]
  >>

\* class MaintenanceStatus(Base)
MaintenanceStatus ==
  <<
    [name |-> "inspection_due_days", json |-> <<"i","n","s","p","e","c","t","i","o","n","_","d","u","e","_","d","a","y","s">>,
     alias |-> <<>>, req |-> FALSE, kind |-> "int", of |-> ""],
    [name |-> "inspection_due_km", json |-> <<"i","n","s","p","e","c","t","i","o","n","_","d","u","e","_","k","m">>,
     alias |-> <<>>, req |-> FALSE, kind |-> "int", of |-> ""],
    [name |-> "mileage_km", json |-> <<"m","i","l","e","a","g","e","_","k","m">>,
     alias |-> <<>>, req |-> FALSE, kind |-> "int", of |-> ""],
    [name |-> "oil_service_due_days", json |-> <<"o","i","l","_","s","e","r","v","i","c","e","_","d","u","e","_","d","a","y","s">>,
     alias |-> <<>>, req |-> FALSE, kind |-> "int", of |-> ""],
    [name |-> "oil_service_due_km", json |-> <<"o","i","l","_","s","e","r","v","i","c","e","_","d","u","e","_","k","m">>,
     alias |-> <<>>, req |-> FALSE, kind |-> "int", of |-> ""]
  >>

\* class Measurements(Base)
Measurements ==
  <<
    [name |-> "range_status", json |-> <<"r","a","n","g","e","_","s","t","a","t","u","s">>,
     alias |-> <<>>, req |-> FALSE, kind |-> "record", of |-> "RangeStatus"],
    [name |-> "odometer_status", json |-> <<"o","d","o","m","e","t","e","r","_","s","t","a","t","u","s">>,
     alias |-> <<>>, req |-> FALSE, kind |-> "record", of |-> "OdometerStatus"],
    [name |-> "fuel_level_status", json |-> <<"f","u","e","l","_","l","e","v","e","l","_","s","t","a","t","u","s">>,
     alias |-> <<>>, req |-> FALSE, kind |-> "record", of |-> "FuelLevelStatus"],
    [name |-> "temperature_battery_status", json |-> <<"t","e","m","p","e","r","a","t","u","r","e","_","b","a","t","t","e","r","y","_","s","t","a","t","u","s">>,
     alias |-> <<>>, req |-> FALSE, kind |-> "record", of |-> "TemperatureBatteryStatus"]
  >>

\* class RangeStatus(Base)
RangeStatus ==
  <<
    [name |-> "electric_range", json |-> <<"e","l","e","c","t","r","i","c","_","r","a","n","g","e">>,
     alias |-> <<>>, req |-> FALSE, kind |-> "int", of |-> ""],
    [name |-> "gasoline_range", json |-> <<"g","a","s","o","l","i","n","e","_","r","a","n","g","e">>,
     alias |-> <<>>, req |-> FALSE, kind |-> "int", of |-> ""],
    [name |-> "total_range_km", json |-> <<"t","o","t","a","l","_","r","a","n","g","e","_","k","m">>,
     alias |-> <<>>, req |-> FALSE, kind |-> "int", of |-> ""]
  >>

\* class OdometerStatus(Base)
OdometerStatus ==
  <<
    [name |-> "odometer", json |-> <<"o","d","o","m","e","t","e","r">>,
     alias |-> <<>>, req |-> FALSE, kind |-> "int", of |-> ""]
  >>

\* class FuelLevelStatus(Base)
FuelLevelStatus ==
  <<
    [name |-> "current_soc_pct", json |-> <<"c","u","r","r","e","n","t","_","s","o","c","_","p","c","t">>,
     alias |-> <<>>, req |-> FALSE, kind |-> "int", of |-> ""],
    [name |-> "current_fuel_level_pct", json |-> <<"c","u","r","r","e","n","t","_","f","u","e","l","_","l","e","v","e","l","_","p","c","t">>,
     alias |-> <<>>, req |-> FALSE, kind |-> "int", of |-> ""],
    [name |-> "primary_engine_type", json |-> <<"p","r","i","m","a","r","y","_","e","n","g","i","n","e","_","t","y","p","e">>,
     alias |-> <<>>, req |-> FALSE, kind |-> "str", of |-> ""],
    [name |-> "secondary_engine_type", json |-> <<"s","e","c","o","n","d","a","r","y","_","e","n","g","i","n","e","_","t","y","p","e">>,
     alias |-> <<>>, req |-> FALSE, kind |-> "str", of |-> ""],
    [name |-> "car_type", json |-> <<"c","a","r","_","t","y","p","e">>,
     alias |-> <<>>, req |-> FALSE, kind |-> "str", of |-> ""]
  >>

\* class TemperatureBatteryStatus(Base)
TemperatureBatteryStatus ==
  <<
    [name |-> "temperature_hv_battery_max_k", json |-> <<"t","e","m","p","e","r","a","t","u","r","e","_","h","v","_","b","a","t","t","e","r","y","_","m","a","x","_","k">>,
     alias |-> <<>>, req |-> TRUE, kind |-> "float", of |-> ""],
    [name |-> "temperature_hv_battery_min_k", json |-> <<"t","e","m","p","e","r","a","t","u","r","e","_","h","v","_","b","a","t","t","e","r","y","_","m","i","n","_","k">>,
     alias |-> <<>>, req |-> TRUE, kind |-> "float", of |-> ""]
  >>

\* class VehicleHealthWarnings(Base)
VehicleHealthWarnings ==
  <<
    [name |-> "warning_lights", json |-> <<"w","a","r","n","i","n","g","_","l","i","g","h","t","s">>,
     alias |-> <<>>, req |-> FALSE, kind |-> "record", of |-> "WarningLights"]
  >>

\* class WarningLights(Base)
WarningLights ==
  <<
    [name |-> "lights", json |-> <<"l","i","g","h","t","s">>,
     alias |-> <<>>, req |-> FALSE, kind |-> "lights_status", of |-> ""]
  >>

\* class UserCapabilities(Base)
UserCapabilities ==
  <<
    [name |-> "capabilities_status", json |-> <<"c","a","p","a","b","i","l","i","t","i","e","s","_","s","t","a","t","u","s">>,
     alias |-> <<>>, req |-> FALSE, kind |-> "list_dict", of |-> ""]
  >>

\* class Model(Base)
Model ==
  <<
    [name |-> "user_capabilities", json |-> <<"u","s","e","r","_","c","a","p","a","b","i","l","i","t","i","e","s">>,
     alias |-> <<>>, req |-> FALSE, kind |-> "record", of |-> "UserCapabilities"],
    [name |-> "access", json |-> <<"a","c","c","e","s","s">>,
     alias |-> <<>>, req |-> FALSE, kind |-> "record", of |-> "Access"],
    [name |-> "charging", json |-> <<"c","h","a","r","g","i","n","g">>,
     alias |-> <<>>, req |-> FALSE, kind |-> "record", of |-> "Charging"],
    [name |-> "climatisation_timers", json |-> <<"c","l","i","m","a","t","i","s","a","t","i","o","n","_","t","i","m","e","r","s">>,
     alias |-> <<>>, req |-> FALSE, kind |-> "record", of |-> "ClimatisationTimers"],
    [name |-> "climatisation", json |-> <<"c","l","i","m","a","t","i","s","a","t","i","o","n">>,
     alias |-> <<>>, req |-> FALSE, kind |-> "record", of |-> "Climatisation"],
    [name |-> "fuel_status", json |-> <<"f","u","e","l","_","s","t","a","t","u","s">>,
     alias |-> <<>>, req |-> FALSE, kind |-> "record", of |-> "FuelStatus"],
    [name |-> "vehicle_health_inspection", json |-> <<"v","e","h","i","c","l","e","_","h","e","a","l","t","h","_","i","n","s","p","e","c","t","i","o","n">>,
     alias |-> <<>>, req |-> FALSE, kind |-> "record", of |-> "VehicleHealthInspection"],
    [name |-> "vehicle_lights", json |-> <<"v","e","h","i","c","l","e","_","l","i","g","h","t","s">>,
     alias |-> <<>>, req |-> FALSE, kind |-> "record", of |-> "VehicleLights"],
    [name |-> "measurements", json |-> <<"m","e","a","s","u","r","e","m","e","n","t","s">>,
     alias |-> <<>>, req |-> FALSE, kind |-> "record", of |-> "Measurements"],
    [name |-> "oil_level", json |-> <<"o","i","l","_","l","e","v","e","l">>,
     alias |-> <<>>, req |-> FALSE, kind |-> "record", of |-> "OilLevel"],
    [name |-> "vehicle_health_warnings", json |-> <<"v","e","h","i","c","l","e","_","h","e","a","l","t","h","_","w","a","r","n","i","n","g","s">>,
     alias |-> <<>>, req |-> FALSE, kind |-> "record", of |-> "VehicleHealthWarnings"]
  >>

\* Every record type of the module; each one derives from Base.
Classes ==
  {"Position", "Location", "Access", "AccessStatus", "Charging", 
   "BatteryStatus", "ChargingStatus", "ChargingSettings", 
   "PlugStatus", "ChargeMode", "Climatisation", 
   "WindowHeatingStatus", "ClimatisationStatus", 
   "ClimatisationSettings", "ClimatisationTimers", 
   "ClimatisationTimersStatus", "Timer", "SingleTimer", 
   "FuelStatus", "FuelRangeStatus", "PrimaryEngine", 
   "SecondaryEngine", "OilLevel", "OilLevelStatus", 
   "VehicleLights", "LightsStatus", "VehicleHealthInspection", 
   "MaintenanceStatus", "Measurements", "RangeStatus", 
   "OdometerStatus", "FuelLevelStatus", 
   "TemperatureBatteryStatus", "VehicleHealthWarnings", 
   "WarningLights", "UserCapabilities", "Model"}

Fields(c) ==
  CASE c = "Position" -> Position
    [] c = "Location" -> Location
    [] c = "Access" -> Access
    [] c = "AccessStatus" -> AccessStatus
    [] c = "Charging" -> Charging
    [] c = "BatteryStatus" -> BatteryStatus
    [] c = "ChargingStatus" -> ChargingStatus
    [] c = "ChargingSettings" -> ChargingSettings
    [] c = "PlugStatus" -> PlugStatus
    [] c = "ChargeMode" -> ChargeMode
    [] c = "Climatisation" -> Climatisation
    [] c = "WindowHeatingStatus" -> WindowHeatingStatus
    [] c = "ClimatisationStatus" -> ClimatisationStatus
    [] c = "ClimatisationSettings" -> ClimatisationSettings
    [] c = "ClimatisationTimers" -> ClimatisationTimers
    [] c = "ClimatisationTimersStatus" -> ClimatisationTimersStatus
    [] c = "Timer" -> Timer
    [] c = "SingleTimer" -> SingleTimer
    [] c = "FuelStatus" -> FuelStatus
    [] c = "FuelRangeStatus" -> FuelRangeStatus
    [] c = "PrimaryEngine" -> PrimaryEngine
    [] c = "SecondaryEngine" -> SecondaryEngine
    [] c = "OilLevel" -> OilLevel
    [] c = "OilLevelStatus" -> OilLevelStatus
    [] c = "VehicleLights" -> VehicleLights
    [] c = "LightsStatus" -> LightsStatus
    [] c = "VehicleHealthInspection" -> VehicleHealthInspection
    [] c = "MaintenanceStatus" -> MaintenanceStatus
    [] c = "Measurements" -> Measurements
    [] c = "RangeStatus" -> RangeStatus
    [] c = "OdometerStatus" -> OdometerStatus
    [] c = "FuelLevelStatus" -> FuelLevelStatus
    [] c = "TemperatureBatteryStatus" -> TemperatureBatteryStatus
    [] c = "VehicleHealthWarnings" -> VehicleHealthWarnings
    [] c = "WarningLights" -> WarningLights
    [] c = "UserCapabilities" -> UserCapabilities
    [] c = "Model" -> Model

(***************************************************************************)
(* helpers.camel2snake, the key normalizer: the two substitutions          *)
(*   re.sub("(.)([A-Z][a-z]+)", r"\1_\2", text)                            *)
(*   re.sub("([a-z0-9])([A-Z])", r"\1_\2", text).lower()                   *)
(* which give current_soc_pct for currentSOC_pct.                          *)
(***************************************************************************)
Lowercase ==
  <<"a","b","c","d","e","f","g","h","i","j","k","l","m",
    "n","o","p","q","r","s","t","u","v","w","x","y","z">>
Uppercase ==
  <<"A","B","C","D","E","F","G","H","I","J","K","L","M",
    "N","O","P","Q","R","S","T","U","V","W","X","Y","Z">>
Digits == <<"0","1","2","3","4","5","6","7","8","9">>

LowerSet == {Lowercase[i] : i \in DOMAIN Lowercase}
UpperSet == {Uppercase[i] : i \in DOMAIN Uppercase}
DigitSet == {Digits[i] : i \in DOMAIN Digits}
LowerOf == [ch \in UpperSet |-> Lowercase[CHOOSE i \in DOMAIN Uppercase : Uppercase[i] = ch]]
UpperOf == [ch \in LowerSet |-> Uppercase[CHOOSE i \in DOMAIN Lowercase : Lowercase[i] = ch]]

IsLower(ch) == ch \in LowerSet
IsUpper(ch) == ch \in UpperSet
IsDigit(ch) == ch \in DigitSet
lower(ch) == IF IsUpper(ch) THEN LowerOf[ch] ELSE ch
upper(ch) == IF IsLower(ch) THEN UpperOf[ch] ELSE ch

RECURSIVE LowerRunEnd(_, _)
\* the last index of the run of lowercase letters that starts at s[i]
LowerRunEnd(s, i) ==
  IF i < Len(s) /\ IsLower(s[i + 1]) THEN LowerRunEnd(s, i + 1) ELSE i

RECURSIVE sub_word(_, _)
\* the first substitution, scanning from s[i]; a match consumes its text
sub_word(s, i) ==
  IF i > Len(s) THEN <<>>
  ELSE IF i + 2 <= Len(s) /\ IsUpper(s[i + 1]) /\ IsLower(s[i + 2])
       THEN LET j == LowerRunEnd(s, i + 2)
            IN  <<s[i], "_">> \o SubSeq(s, i + 1, j) \o sub_word(s, j + 1)
       ELSE <<s[i]>> \o sub_word(s, i + 1)

RECURSIVE sub_hump(_, _)
\* the second substitution, scanning from s[i]
sub_hump(s, i) ==
  IF i > Len(s) THEN <<>>
  ELSE IF i + 1 <= Len(s) /\ (IsLower(s[i]) \/ IsDigit(s[i])) /\ IsUpper(s[i + 1])
       THEN <<s[i], "_", s[i + 1]>> \o sub_hump(s, i + 2)
       ELSE <<s[i]>> \o sub_hump(s, i + 1)

RECURSIVE lower_all(_)
lower_all(s) == IF s = <<>> THEN <<>> ELSE <<lower(Head(s))>> \o lower_all(Tail(s))

camel2snake(text) == lower_all(sub_hump(sub_word(text, 1), 1))

(***************************************************************************)
(* The keys of the explored documents: the API's camelCase spelling of an  *)
(* unaliased field; the alias and the own name of an aliased field; keys   *)
(* no schema knows.  camel2snake is tabulated over them once.              *)
(***************************************************************************)
RECURSIVE CamelFrom(_, _, _)
CamelFrom(s, i, up) ==
  IF i > Len(s) THEN <<>>
  ELSE IF s[i] = "_" THEN CamelFrom(s, i + 1, TRUE)
  ELSE <<IF up THEN upper(s[i]) ELSE s[i]>> \o CamelFrom(s, i + 1, FALSE)
Camel(s) == CamelFrom(s, 1, FALSE)

RawKeys(f) == IF f.alias # <<>> THEN {f.alias, f.json} ELSE {Camel(f.json)}

someNewFieldNotInSchema ==
  <<"s","o","m","e","N","e","w","F","i","e","l","d","N","o","t","I","n",
    "S","c","h","e","m","a">>
new_field == <<"n","e","w","_","f","i","e","l","d">>

UnknownKeys == {someNewFieldNotInSchema, new_field}

ExploredKeys ==
  UnknownKeys \cup
  UNION {UNION {RawKeys(Fields(c)[i]) \cup {Fields(c)[i].json} :
                  i \in DOMAIN Fields(c)} : c \in Classes}
Camel2SnakeTable == [k \in ExploredKeys |-> camel2snake(k)]
Normalized(k) ==
  IF k \in DOMAIN Camel2SnakeTable THEN Camel2SnakeTable[k] ELSE camel2snake(k)

(***************************************************************************)
(* Base.__pre_deserialize__: a dict gives a NEW dict with every key        *)
(* normalized; anything else is returned as it is.  ret is what the hook   *)
(* returns, arg the argument object after the call.  (Two keys of one      *)
(* object with the same normal form do not occur in the explored           *)
(* documents; the comprehension would keep the later one.)                 *)
(***************************************************************************)
Renamed(f) ==
  LET nm == [k \in DOMAIN f |-> Normalized(k)]
  IN  [nk \in {nm[k] : k \in DOMAIN f} |-> f[CHOOSE k \in DOMAIN f : nm[k] = nk]]

\* a hook that renames the keys of its argument in place
PreDeserialize_inplace(d) ==
  IF IsDict(d)
  THEN [ret |-> PyDict(Renamed(d.dict)), arg |-> PyDict(Renamed(d.dict))]
  ELSE [ret |-> d, arg |-> d]

PreDeserialize(d) ==
  IF IsDict(d)
  THEN [ret |-> PyDict(Renamed(d.dict)), arg |-> d]
  ELSE [ret |-> d, arg |-> d]

\* only the aggregate record derives from Base
InheritsBase_top(c) == c = "Model"

\* Every record type is declared `class X(Base)` and inherits the hook.
InheritsBase(c) == c \in Classes

\* what the hook of class c returns for d, and d after the call
Hook(c, d) == IF InheritsBase(c) THEN PreDeserialize(d) ELSE [ret |-> d, arg |-> d]

(***************************************************************************)
(* The dataclasses declare no Config: mashumaro's defaults apply.          *)
(***************************************************************************)
ForbidExtraKeys_on == TRUE
ForbidExtraKeys == FALSE
SerializeByAlias == FALSE

\* Every field with a default declares None (`= None`, `default=None`).
Default_zero(f) == PyInt(0)
Default(f) == None

\* The key a field is read from: its alias when one is declared.
LookupKey(f) == IF f.alias # <<>> THEN f.alias ELSE f.json

(***************************************************************************)
(* The literals the code compares with.                                    *)
(***************************************************************************)
locked == <<"l","o","c","k","e","d">>
off == <<"o","f","f">>
charging == <<"c","h","a","r","g","i","n","g">>
connected == <<"c","o","n","n","e","c","t","e","d">>

\* "anything but unlocked is locked"
Locked_deserialize_ne(value) == PyBool(value # PyStr(<<"u","n","l","o","c","k","e","d">>))
\* "only on is on"
OnOff_deserialize_eq(value) == PyBool(value = PyStr(<<"o","n">>))

\* Locked.deserialize / Locked.serialize
Locked_deserialize(value) == PyBool(value = PyStr(locked))
Locked_serialize(value) == value

\* OnOff.deserialize / OnOff.serialize
OnOff_deserialize(value) == PyBool(value # PyStr(off))
OnOff_serialize(value) == value

\* ChargingStatus.charging_state: lambda x: x == "charging"
charging_state_deserialize(x) == PyBool(x = PyStr(charging))
\* PlugStatus.plug_connection_state: lambda x: x == "connected"
plug_connection_state_deserialize(x) == PyBool(x = PyStr(connected))

(***************************************************************************)
(* The conversions of the field types.                                     *)
(***************************************************************************)
Exc(t) == [type |-> t]

DigitValue == [ch \in DigitSet |-> (CHOOSE i \in DOMAIN Digits : Digits[i] = ch) - 1]
RECURSIVE ParseDigits(_)
ParseDigits(s) ==
  IF s = <<>> THEN 0
  ELSE 10 * ParseDigits(SubSeq(s, 1, Len(s) - 1))
       + DigitValue[s[Len(s)]]
AllDigits(s) == Len(s) > 0 /\ \A i \in DOMAIN s : IsDigit(s[i])

\* the number int(v) and float(v) read, for the values of the documents
Number(v) ==
  IF IsInt(v) THEN Return(v.int, v)
  ELSE IF IsFloat(v) THEN Return(v.float, v)
  ELSE IF IsBool(v) THEN Return(IF v.bool THEN 1 ELSE 0, v)
  ELSE IF IsStr(v)
       THEN IF AllDigits(v.str) THEN Return(ParseDigits(v.str), v)
            ELSE Raise(Exc("ValueError"), v)
  ELSE Raise(Exc("TypeError"), v)

py_int(v) == LET n == Number(v) IN IF n.ok THEN Return(PyInt(n.val), v) ELSE n
py_float(v) == LET n == Number(v) IN IF n.ok THEN Return(PyFloat(n.val), v) ELSE n

\* "YYYY-MM-DDTHH:MM:SS+HH:MM", the form of the timestamps of the documents
IsoShape(s) ==
  /\ Len(s) = 25
  /\ \A i \in {1,2,3,4, 6,7, 9,10, 12,13, 15,16, 18,19, 21,22, 24,25} : IsDigit(s[i])
  /\ s[5] = "-" /\ s[8] = "-" /\ s[11] = "T" /\ s[14] = ":" /\ s[17] = ":"
  /\ s[20] \in {"+", "-"} /\ s[23] = ":"

ParseIso(s) ==
  [year |-> ParseDigits(SubSeq(s, 1, 4)), month |-> ParseDigits(SubSeq(s, 6, 7)),
   day |-> ParseDigits(SubSeq(s, 9, 10)), hour |-> ParseDigits(SubSeq(s, 12, 13)),
   minute |-> ParseDigits(SubSeq(s, 15, 16)), second |-> ParseDigits(SubSeq(s, 18, 19)),
   utcoffset |-> (IF s[20] = "-" THEN -1 ELSE 1)
                 * (60 * ParseDigits(SubSeq(s, 21, 22)) + ParseDigits(SubSeq(s, 24, 25)))]

ValidDateTime(t) ==
  /\ t.year >= 1 /\ t.month \in 1..12 /\ t.day \in 1..31
  /\ t.hour < 24 /\ t.minute < 60 /\ t.second < 60
  /\ t.utcoffset > -1440 /\ t.utcoffset < 1440

\* datetime.fromisoformat(v), and datetime.strptime(v, "%Y-%m-%dT%H:%M:%S%z")
fromisoformat(v) ==
  IF ~IsStr(v) THEN Raise(Exc("TypeError"), v)
  ELSE IF IsoShape(v.str) /\ ValidDateTime(ParseIso(v.str))
       THEN Return(DateTime(ParseIso(v.str)), v)
       ELSE Raise(Exc("ValueError"), v)
strptime(v) == fromisoformat(v)

TwoDigits(n) == <<Digits[((n \div 10) % 10) + 1], Digits[(n % 10) + 1]>>
Abs(n) == IF n < 0 THEN -n ELSE n
\* datetime.isoformat()
isoformat(t) ==
  <<Digits[((t.year \div 1000) % 10) + 1], Digits[((t.year \div 100) % 10) + 1]>>
  \o TwoDigits(t.year) \o <<"-">> \o TwoDigits(t.month) \o <<"-">> \o TwoDigits(t.day)
  \o <<"T">> \o TwoDigits(t.hour) \o <<":">> \o TwoDigits(t.minute)
  \o <<":">> \o TwoDigits(t.second)
  \o <<IF t.utcoffset < 0 THEN "-" ELSE "+">>
  \o TwoDigits(Abs(t.utcoffset) \div 60) \o <<":">> \o TwoDigits(Abs(t.utcoffset) % 60)

(***************************************************************************)
(* helpers.doors_status, windows_status and lights_status: a list of       *)
(* {id, status} objects becomes a mapping from id to status.               *)
(***************************************************************************)
id_key == <<"i","d">>
status_key == <<"s","t","a","t","u","s">>

Flatten(v) ==
  IF /\ IsList(v)
     /\ \A i \in DOMAIN v.list :
          /\ IsDict(v.list[i])
          /\ {id_key, status_key} \subseteq DOMAIN v.list[i].dict
          /\ IsStr(v.list[i].dict[id_key])
  THEN Return(PyDict([k \in {v.list[i].dict[id_key].str : i \in DOMAIN v.list} |->
                        LET last == CHOOSE i \in DOMAIN v.list :
                                      /\ v.list[i].dict[id_key].str = k
                                      /\ \A j \in DOMAIN v.list :
                                           v.list[j].dict[id_key].str = k => j <= i
                        IN  v.list[last].dict[status_key]]), v)
  ELSE Raise(Exc("Exception"), v)

doors_status(v) == Flatten(v)
windows_status(v) == Flatten(v)
lights_status(v) == Flatten(v)

(***************************************************************************)
(* from_dict, as mashumaro compiles it for a dataclass: the hook first,    *)
(* then the fields in declaration order, each read from the hook's result  *)
(* by its alias or else its name; the first failure ends the call.         *)
(***************************************************************************)
MissingField(name, c) ==
  [type |-> "MissingField", field_name |-> name, holder_class |-> c]
InvalidFieldValue(name, c, cause) ==
  [type |-> "InvalidFieldValue", field_name |-> name, holder_class |-> c,
   cause |-> cause]

\* the keys of a dict in one of their orders (its insertion order is not modelled)
KeysInOrder(f) ==
  CHOOSE q \in [1..Cardinality(DOMAIN f) -> DOMAIN f] :
    {q[i] : i \in DOMAIN q} = DOMAIN f

\* `for x in value`
Iterate(v) ==
  IF IsList(v) THEN Return(v.list, v)
  ELSE IF IsStr(v) THEN Return([i \in DOMAIN v.str |-> PyStr(<<v.str[i]>>)], v)
  ELSE IF IsDict(v)
       THEN Return([i \in 1..Cardinality(DOMAIN v.dict) |->
                      PyStr(KeysInOrder(v.dict)[i])], v)
  ELSE Raise(Exc("TypeError"), v)

\* the object a with the value stored under the raw key of `key` replaced
Stored(a, key, newv) ==
  PyDict([k \in DOMAIN a.dict |->
            IF Normalized(k) = key THEN newv ELSE a.dict[k]])

RECURSIVE FromDict(_, _)
RECURSIVE Unpack(_, _)
RECURSIVE UnpackFields(_, _, _, _, _)
RECURSIVE UnpackItems(_, _, _, _)

\* [c.from_dict(x) for x in q], from q[i] on
UnpackItems(c, q, i, acc) ==
  IF i > Len(q) THEN Return(PyList(acc), PyList(q))
  ELSE LET r == FromDict(c, q[i])
           q2 == [q EXCEPT ![i] = r.arg]
       IN  IF r.ok THEN UnpackItems(c, q2, i + 1, Append(acc, r.val))
           ELSE Raise(r.exc, PyList(q2))

\* the conversion of one present value of field f
Unpack(f, v) ==
  CASE f.kind = "int" -> py_int(v)
    [] f.kind = "float" -> py_float(v)
    [] f.kind \in {"str", "bool"} -> Return(v, v)
    [] f.kind = "datetime" -> fromisoformat(v)
    [] f.kind = "strptime" -> strptime(v)
    [] f.kind = "Locked" -> Return(Locked_deserialize(v), v)
    [] f.kind = "OnOff" -> Return(OnOff_deserialize(v), v)
    [] f.kind = "eq_charging" -> Return(charging_state_deserialize(v), v)
    [] f.kind = "eq_connected" -> Return(plug_connection_state_deserialize(v), v)
    [] f.kind = "doors_status" -> doors_status(v)
    [] f.kind = "windows_status" -> windows_status(v)
    [] f.kind = "lights_status" -> lights_status(v)
    [] f.kind = "record" -> FromDict(f.of, v)
    [] f.kind = "list_record" ->
         LET it == Iterate(v)
         IN  IF ~it.ok THEN it
             ELSE LET r == UnpackItems(f.of, it.val, 1, <<>>)
                  IN  IF IsList(v) THEN r ELSE [r EXCEPT !.arg = v]
    [] f.kind = "list_dict" ->
         LET it == Iterate(v)
         IN  IF ~it.ok THEN it
             ELSE IF \A i \in DOMAIN it.val : IsDict(it.val[i])
                  THEN Return(PyList(it.val), v)
                  ELSE Raise(Exc("AttributeError"), v)
    [] f.kind = "list_str" ->
         LET it == Iterate(v)
         IN  IF it.ok THEN Return(PyList(it.val), v) ELSE it

\* a decoder that turns the failed conversion of an optional field into None
RECURSIVE UnpackFields_lenient(_, _, _, _, _)
UnpackFields_lenient(c, nd, i, kw, a) ==
  IF i > Len(Fields(c)) THEN Return(Obj(c, kw), a)
  ELSE LET f == Fields(c)[i]
           key == LookupKey(f)
       IN  IF key \notin DOMAIN nd
           THEN IF f.req THEN Raise(MissingField(f.name, c), a)
                ELSE UnpackFields_lenient(c, nd, i + 1, (f.name :> Default(f)) @@ kw, a)
           ELSE IF ~f.req /\ nd[key] = None
           THEN UnpackFields_lenient(c, nd, i + 1, (f.name :> None) @@ kw, a)
           ELSE LET u == Unpack(f, nd[key])
                    a2 == IF u.arg = nd[key] THEN a ELSE Stored(a, key, u.arg)
                IN  IF u.ok
                    THEN UnpackFields_lenient(c, nd, i + 1, (f.name :> u.val) @@ kw, a2)
                    ELSE IF ~f.req
                    THEN UnpackFields_lenient(c, nd, i + 1, (f.name :> None) @@ kw, a2)
                    ELSE Raise(InvalidFieldValue(f.name, c, u.exc), a2)

\* the fields of c from the i-th on, read from the hook's result nd; kw are
\* the constructor arguments so far, a the caller's object
UnpackFields(c, nd, i, kw, a) ==
  IF i > Len(Fields(c)) THEN Return(Obj(c, kw), a)
  ELSE LET f == Fields(c)[i]
           key == LookupKey(f)
       IN  IF key \notin DOMAIN nd
           THEN IF f.req THEN Raise(MissingField(f.name, c), a)
                ELSE UnpackFields(c, nd, i + 1, (f.name :> Default(f)) @@ kw, a)
           ELSE IF ~f.req /\ nd[key] = None
           THEN UnpackFields(c, nd, i + 1, (f.name :> None) @@ kw, a)
           ELSE LET u == Unpack(f, nd[key])
                    a2 == IF u.arg = nd[key] THEN a ELSE Stored(a, key, u.arg)
                IN  IF u.ok
                    THEN UnpackFields(c, nd, i + 1, (f.name :> u.val) @@ kw, a2)
                    ELSE Raise(InvalidFieldValue(f.name, c, u.exc), a2)

\* the keys of nd that no field of c is read from
ExtraKeys(c, nd) ==
  DOMAIN nd \ {LookupKey(Fields(c)[i]) : i \in DOMAIN Fields(c)}

FromDict(c, d) ==
  LET h == Hook(c, d)
  IN  IF ~IsDict(h.ret) THEN Raise(Exc("AttributeError"), h.arg)
      ELSE IF ForbidExtraKeys /\ ExtraKeys(c, h.ret.dict) # {}
      THEN Raise(Exc("ExtraKeysError"), h.arg)
      ELSE UnpackFields(c, h.ret.dict, 1, EmptyMap, h.arg)

(***************************************************************************)
(* to_dict, as mashumaro compiles it: one key per field, the field's name; *)
(* None stays None; a serialization strategy's serialize is applied.       *)
(***************************************************************************)
OutKey(f) == IF SerializeByAlias /\ f.alias # <<>> THEN f.alias ELSE f.json

RECURSIVE ToDict(_)
RECURSIVE Pack(_, _)

Pack(f, x) ==
  IF x = None THEN None
  ELSE CASE f.kind \in {"int", "eq_connected"} -> py_int(x).val
         [] f.kind = "float" -> py_float(x).val
         [] f.kind \in {"str", "bool", "eq_charging", "list_dict", "list_str",
                        "doors_status", "windows_status", "lights_status"} -> x
         [] f.kind \in {"datetime", "strptime"} -> PyStr(isoformat(x.datetime))
         [] f.kind = "Locked" -> Locked_serialize(x)
         [] f.kind = "OnOff" -> OnOff_serialize(x)
         [] f.kind = "record" -> ToDict(x)
         [] f.kind = "list_record" -> PyList([i \in DOMAIN x.list |-> ToDict(x.list[i])])

ToDict(o) ==
  LET fs == Fields(o.cls)
  IN  PyDict([k \in {OutKey(fs[i]) : i \in DOMAIN fs} |->
                LET f == fs[CHOOSE i \in DOMAIN fs : OutKey(fs[i]) = k]
                IN  Pack(f, o.attrs[f.name])])

(***************************************************************************)
(* The raw documents explored.  The API spells an unaliased field in       *)
(* camelCase; an aliased field is tried under its alias and under its own  *)
(* name.  No object spells one key twice.                                  *)
(***************************************************************************)
abc == <<"a","b","c">>
eighty_seven == <<"8","7">>
unlocked == <<"u","n","l","o","c","k","e","d">>
Locked_capital == <<"L","o","c","k","e","d">>
on == <<"o","n">>
unknown == <<"u","n","k","n","o","w","n">>
frontLeft == <<"f","r","o","n","t","L","e","f","t">>
closed == <<"c","l","o","s","e","d">>
timestamp ==
  <<"2","0","2","3","-","0","5","-","0","1","T",
    "1","2",":","0","0",":","0","0","+","0","2",":","0","0">>
not_a_date == <<"n","o","t","-","a","-","d","a","t","e">>
IsNested(f) == f.kind \in {"record", "list_record"}

RECURSIVE DocsFrom(_, _, _, _)
RECURSIVE Samples(_, _)

\* raw values tried for field f, holding at most n keys
Samples(f, n) ==
  {None} \cup
  CASE f.kind \in {"int", "float"} -> {PyInt(87), PyStr(eighty_seven), PyStr(abc)}
    [] f.kind = "str" -> {PyStr(abc)}
    [] f.kind = "bool" -> {PyBool(TRUE)}
    [] f.kind \in {"datetime", "strptime"} -> {PyStr(timestamp), PyStr(not_a_date)}
    [] f.kind = "Locked" ->
         {PyStr(locked), PyStr(unlocked), PyStr(Locked_capital), PyStr(unknown)}
    [] f.kind = "OnOff" -> {PyStr(off), PyStr(on), PyStr(unknown)}
    [] f.kind = "eq_charging" -> {PyStr(charging), PyStr(unknown)}
    [] f.kind = "eq_connected" -> {PyStr(connected), PyStr(unknown)}
    [] f.kind \in {"doors_status", "windows_status", "lights_status"} ->
         {PyList(<<PyDict((id_key :> PyStr(frontLeft)) @@ (status_key :> PyStr(closed)))>>),
          PyInt(5)}
    [] f.kind = "list_dict" -> {PyList(<<PyDict(id_key :> PyStr(abc))>>), PyInt(5)}
    [] f.kind = "list_str" -> {PyList(<<PyStr(abc)>>), PyInt(5)}
    [] f.kind = "record" ->
         {PyInt(5)} \cup {PyDict(d) : d \in DocsFrom(f.of, 1, n, MaxWidth)}
    [] f.kind = "list_record" ->
         {PyInt(5)} \cup {PyList(<<PyDict(d)>>) : d \in DocsFrom(f.of, 1, n, MaxWidth)}

\* objects for class c over its fields from the i-th on: at most w keys, and
\* at most n keys with those of the nested objects
DocsFrom(c, i, n, w) ==
  {EmptyMap} \cup
  IF n = 0 \/ w = 0 THEN {}
  ELSE UNION {
         {(k :> v) @@ rest :
            k \in RawKeys(Fields(c)[j]),
            v \in Samples(Fields(c)[j], a),
            rest \in DocsFrom(c, j + 1, n - 1 - a, w - 1)} :
         j \in i..Len(Fields(c)),
         a \in 0..(n - 1)}

currentSOC_pct == <<"c","u","r","r","e","n","t","S","O","C","_","p","c","t">>
cruisingRangeElectricKm ==
  <<"c","r","u","i","s","i","n","g","R","a","n","g","e",
    "E","l","e","c","t","r","i","c","K","m">>

\* the battery-status document of the specification's scenario
Scenarios(c) ==
  IF c = "BatteryStatus"
  THEN {PyDict((currentSOC_pct :> PyInt(87)) @@ (cruisingRangeElectricKm :> PyInt(210)))}
  ELSE {}

\* null, a value that is no mapping, and the documents within the bounds
Inputs(c) ==
  {None, PyInt(5)} \cup Scenarios(c)
  \cup {PyDict(d) : d \in DocsFrom(c, 1, MaxKeys, MaxWidth)}

(***************************************************************************)
(* The state machine: a caller builds a raw document, decodes it, and may  *)
(* decode it again, add keys the schema does not know and decode again,    *)
(* or encode the record and decode the encoding.                           *)
(***************************************************************************)
Outcome(r) ==
  IF r.ok THEN [ok |-> TRUE, val |-> r.val] ELSE [ok |-> FALSE, exc |-> r.exc]

\* k, normalized, is neither read by a field of c nor the name of one
IsUnknown(c, k) ==
  \A i \in DOMAIN Fields(c) :
    Normalized(k) \notin {LookupKey(Fields(c)[i]), Fields(c)[i].json}

\* the class decoded from the value stored under raw key kk of a c document
NestedClass(c, kk) ==
  LET is == {i \in DOMAIN Fields(c) :
               /\ Fields(c)[i].kind = "record"
               /\ LookupKey(Fields(c)[i]) = Normalized(kk)}
  IN  IF is = {} THEN "" ELSE Fields(c)[CHOOSE i \in is : TRUE].of

RECURSIVE KeyCount(_)
\* the keys of a raw value, those of its nested objects included
KeyCount(v) ==
  IF IsDict(v)
  THEN LET Sum[ks \in SUBSET DOMAIN v.dict] ==
             IF ks = {} THEN 0
             ELSE LET k == CHOOSE x \in ks : TRUE
                  IN  1 + KeyCount(v.dict[k]) + Sum[ks \ {k}]
       IN  Sum[DOMAIN v.dict]
  ELSE IF IsList(v)
  THEN LET Sum[i \in 0..Len(v.list)] ==
             IF i = 0 THEN 0 ELSE KeyCount(v.list[i]) + Sum[i - 1]
       IN  Sum[Len(v.list)]
  ELSE 0

Init ==
  /\ cls \in Classes
  /\ raw0 \in Inputs(cls)
  /\ raw = raw0
  /\ hooked = None /\ out = None /\ prev = None /\ enc = None /\ back = None
  /\ nadded = 0
  /\ pc = "start"

\* cls.from_dict(raw)
Decode ==
  /\ pc = "start"
  /\ LET r == FromDict(cls, raw)
     IN  /\ out' = Outcome(r)
         /\ raw' = r.arg
  /\ hooked' = Hook(cls, raw).ret
  /\ pc' = "decoded"
  /\ UNCHANGED <<cls, raw0, prev, enc, back, nadded>>

\* cls.from_dict(raw), a second time on the same object
DecodeAgain ==
  /\ pc = "decoded"
  /\ LET r == FromDict(cls, raw)
     IN  /\ out' = Outcome(r)
         /\ raw' = r.arg
  /\ prev' = out
  /\ hooked' = Hook(cls, raw).ret
  /\ pc' = "again"
  /\ UNCHANGED <<cls, raw0, enc, back, nadded>>

\* the caller adds a key the schema does not know to the document
AddUnknownKey ==
  /\ pc \in {"decoded", "extended"}
  /\ KeyCount(raw) < MaxKeys
  /\ IsDict(raw)
  /\ \E k \in UnknownKeys, v \in {PyInt(1)} :
       /\ k \notin DOMAIN raw.dict
       /\ IsUnknown(cls, k)
       /\ raw' = PyDict((k :> v) @@ raw.dict)
  /\ raw0' = raw'
  /\ prev' = IF pc = "decoded" THEN out ELSE prev
  /\ nadded' = nadded + 1
  /\ pc' = "extended"
  /\ UNCHANGED <<cls, hooked, out, enc, back>>

\* the caller adds a key the nested schema does not know to a nested object
AddNestedUnknownKey ==
  /\ pc \in {"decoded", "extended"}
  /\ KeyCount(raw) < MaxKeys
  /\ IsDict(raw)
  /\ \E kk \in DOMAIN raw.dict, k \in UnknownKeys :
       /\ IsDict(raw.dict[kk])
       /\ NestedClass(cls, kk) # ""
       /\ k \notin DOMAIN raw.dict[kk].dict
       /\ IsUnknown(NestedClass(cls, kk), k)
       /\ raw' = PyDict([raw.dict EXCEPT
                           ![kk] = PyDict((k :> PyInt(1)) @@ raw.dict[kk].dict)])
  /\ raw0' = raw'
  /\ prev' = IF pc = "decoded" THEN out ELSE prev
  /\ nadded' = nadded + 1
  /\ pc' = "extended"
  /\ UNCHANGED <<cls, hooked, out, enc, back>>

\* cls.from_dict(raw) on the document with the added keys
DecodeExtended ==
  /\ pc = "extended"
  /\ LET r == FromDict(cls, raw)
     IN  /\ out' = Outcome(r)
         /\ raw' = r.arg
  /\ hooked' = Hook(cls, raw).ret
  /\ pc' = "redecoded"
  /\ UNCHANGED <<cls, raw0, prev, enc, back, nadded>>

\* record.to_dict()
Encode ==
  /\ pc = "decoded"
  /\ out.ok
  /\ enc' = ToDict(out.val)
  /\ pc' = "encoded"
  /\ UNCHANGED <<cls, raw0, raw, hooked, out, prev, back, nadded>>

\* cls.from_dict(record.to_dict())
DecodeEncoded ==
  /\ pc = "encoded"
  /\ LET r == FromDict(cls, enc)
     IN  /\ back' = Outcome(r)
         /\ enc' = r.arg
  /\ pc' = "roundtrip"
  /\ UNCHANGED <<cls, raw0, raw, hooked, out, prev, nadded>>

Next ==
  \/ Decode
  \/ DecodeAgain
  \/ AddUnknownKey
  \/ AddNestedUnknownKey
  \/ DecodeExtended
  \/ Encode
  \/ DecodeEncoded

Spec == Init /\ [][Next]_vars

(***************************************************************************)
(* The properties.                                                         *)
(***************************************************************************)
FieldSet(c) == {Fields(c)[i] : i \in DOMAIN Fields(c)}

\* out is the outcome of decoding the document raw0
OutIsOfRaw0 == pc \in {"decoded", "again", "redecoded", "encoded", "roundtrip"}

\* the raw keys of object d that name field f: its alias when it declares
\* one, else every key whose normal form is its name
SourceKeys(f, d) ==
  IF f.alias # <<>> THEN {f.alias} \cap DOMAIN d
  ELSE {k \in DOMAIN d : camel2snake(k) = f.json}

access == <<"a","c","c","e","s","s">>
accessStatus == <<"a","c","c","e","s","s","S","t","a","t","u","s">>
batteryStatus == <<"b","a","t","t","e","r","y","S","t","a","t","u","s">>
carCapturedTimestamp ==
  <<"c","a","r","C","a","p","t","u","r","e","d","T","i","m","e","s","t","a","m","p">>
doorLockStatus == <<"d","o","o","r","L","o","c","k","S","t","a","t","u","s">>
climatisationState ==
  <<"c","l","i","m","a","t","i","s","a","t","i","o","n","S","t","a","t","e">>
startDateTime == <<"s","t","a","r","t","D","a","t","e","T","i","m","e">>
targetDateTime == <<"t","a","r","g","e","t","D","a","t","e","T","i","m","e">>

----------------------------------------------------------------------------
\* C1: for every field that declares an alias, decoding a raw mapping that
\* holds the alias key (and decodes) populates the field with the converted
\* raw value; in particular {"currentSOC_pct": 87, "cruisingRangeElectricKm":
\* 210} decodes with BatteryStatus to current_soc_pct = 87 and
\* cruising_range_electric_km = 210.
C1_AliasPopulates ==
  (pc = "decoded" /\ IsDict(raw0) /\ out.ok) =>
    /\ \A f \in FieldSet(cls) :
         (/\ f.alias # <<>>
          /\ f.alias \in DOMAIN raw0.dict
          /\ f.json \notin DOMAIN raw0.dict
          /\ raw0.dict[f.alias] # None
          /\ Unpack(f, raw0.dict[f.alias]).ok)
         => out.val.attrs[f.name] = Unpack(f, raw0.dict[f.alias]).val
    /\ (cls = "BatteryStatus" /\ raw0 \in Scenarios("BatteryStatus"))
         => /\ out.val.attrs.current_soc_pct = PyInt(87)
            /\ out.val.attrs.cruising_range_electric_km = PyInt(210)

----------------------------------------------------------------------------
\* the sub-resources of a Model document whose own decode fails
FailedSubResources ==
  {f \in FieldSet("Model") :
     \E k \in SourceKeys(f, raw0.dict) :
       raw0.dict[k] # None /\ ~FromDict(f.of, raw0.dict[k]).ok}
\* the sub-resources of a Model document whose own decode succeeds
DecodedSubResources ==
  {f \in FieldSet("Model") :
     \E k \in SourceKeys(f, raw0.dict) :
       raw0.dict[k] # None /\ FromDict(f.of, raw0.dict[k]).ok}
\* an access sub-resource whose accessStatus lacks car_captured_timestamp
AccessLacksTimestamp(d) ==
  /\ access \in DOMAIN d
  /\ IsDict(d[access])
  /\ accessStatus \in DOMAIN d[access].dict
  /\ IsDict(d[access].dict[accessStatus])
  /\ \A k \in DOMAIN d[access].dict[accessStatus].dict :
       camel2snake(k) # <<"c","a","r","_","c","a","p","t","u","r","e","d","_",
                          "t","i","m","e","s","t","a","m","p">>

\* C2 as stated: when the decode of one sub-resource of a Model document
\* fails, the sibling sub-resources are still decoded and available.
C2_SiblingsStillDecoded ==
  (pc = "decoded" /\ cls = "Model" /\ IsDict(raw0) /\ FailedSubResources # {}) =>
    \A g \in DecodedSubResources :
      /\ out.ok
      /\ \E k \in SourceKeys(g, raw0.dict) :
           out.val.attrs[g.name] = FromDict(g.of, raw0.dict[k]).val

\* C2, amended: when the decode of a sub-resource of a Model document fails,
\* the decode of the whole Model fails: it raises InvalidFieldValue for
\* holder Model, naming the first failing sub-resource in declaration order
\* and carrying the nested failure as its cause; no record is returned.  An
\* access whose accessStatus lacks car_captured_timestamp is such a failure.
C2_FailurePropagates ==
  (pc = "decoded" /\ cls = "Model" /\ IsDict(raw0)) =>
    /\ FailedSubResources # {} =>
         /\ ~out.ok
         /\ out.exc.type = "InvalidFieldValue"
         /\ out.exc.holder_class = "Model"
         /\ \E i \in DOMAIN Model :
              /\ Model[i] \in FailedSubResources
              /\ \A j \in 1..(i - 1) : Model[j] \notin FailedSubResources
              /\ out.exc.field_name = Model[i].name
              /\ \E k \in SourceKeys(Model[i], raw0.dict) :
                   out.exc.cause = FromDict(Model[i].of, raw0.dict[k]).exc
    /\ AccessLacksTimestamp(raw0.dict) =>
         /\ ~out.ok
         /\ out.exc.type = "InvalidFieldValue"
         /\ out.exc.field_name \in {"user_capabilities", "access"}

C2_Witness ==
  /\ pc = "decoded" /\ cls = "Model" /\ IsDict(raw0)
  /\ AccessLacksTimestamp(raw0.dict)
  /\ charging \in DOMAIN raw0.dict
  /\ raw0.dict[charging] = PyDict(EmptyMap)
  /\ ~out.ok
  /\ out.exc.field_name = "access"
  /\ out.exc.cause.cause.type = "MissingField"

----------------------------------------------------------------------------
\* C3: for every field with a Locked or OnOff strategy, decoding the
\* encoding of a decoded record gives the field its value back, for both
\* boolean values.
C3_RoundTrip ==
  pc = "roundtrip" =>
    \A f \in FieldSet(cls) :
      (f.kind \in {"Locked", "OnOff"} /\ out.val.attrs[f.name] # None) =>
        /\ back.ok
        /\ back.val.attrs[f.name] = out.val.attrs[f.name]

----------------------------------------------------------------------------
AllOptional(c) == \A f \in FieldSet(c) : ~f.req
AllNone(o) == \A n \in DOMAIN o.attrs : o.attrs[n] = None

\* C4 as stated: for a record type whose fields are all optional, decoding
\* null or an empty mapping never raises and yields a record whose fields
\* are all None.
C4_NullOrEmptyDecodes ==
  (pc = "decoded" /\ AllOptional(cls) /\ raw0 \in {None, PyDict(EmptyMap)}) =>
    out.ok /\ AllNone(out.val)

\* C4, amended: for a record type whose fields are all optional, decoding an
\* empty mapping never raises and yields a record whose fields are all None;
\* decoding null raises, because the hook passes null through and the fields
\* cannot be read from it; a null stored under a field's key in a mapping
\* decodes to None for that field.
C4_EmptyDecodesNullRaises ==
  (pc = "decoded" /\ AllOptional(cls)) =>
    /\ raw0 = PyDict(EmptyMap) =>
         /\ out.ok
         /\ out.val.cls = cls
         /\ DOMAIN out.val.attrs = {f.name : f \in FieldSet(cls)}
         /\ AllNone(out.val)
    /\ raw0 = None => (~out.ok /\ hooked = None)
    /\ (IsDict(raw0) /\ out.ok) =>
         \A f \in FieldSet(cls) :
           (LookupKey(f) \in DOMAIN hooked.dict /\ hooked.dict[LookupKey(f)] = None)
             => out.val.attrs[f.name] = None

C4_Witness ==
  /\ pc = "decoded" /\ cls = "Model" /\ raw0 = PyDict(EmptyMap)
  /\ out.ok /\ AllNone(out.val)
  /\ Cardinality(DOMAIN out.val.attrs) = Len(Model)

----------------------------------------------------------------------------
\* the fields declared before the i-th of c convert without failure
EarlierFieldsFine(c, i, d) ==
  \A j \in 1..(i - 1) :
    LET g == Fields(c)[j]
    IN  /\ g.req => SourceKeys(g, d) # {}
        /\ \A k \in SourceKeys(g, d) :
             (g.req \/ d[k] # None) => Unpack(g, d[k]).ok

\* C5, first half: when the source key of a required field is absent (and
\* no field declared before it fails), the decode raises MissingField naming
\* that field and returns no record.
C5_AbsentRaisesMissing ==
  (pc = "decoded" /\ IsDict(raw0)) =>
    \A i \in DOMAIN Fields(cls) :
      (/\ Fields(cls)[i].req
       /\ SourceKeys(Fields(cls)[i], raw0.dict) = {}
       /\ EarlierFieldsFine(cls, i, raw0.dict))
      => /\ ~out.ok
         /\ out.exc = MissingField(Fields(cls)[i].name, cls)

\* C5, second half: a mapping that supplies the source key of every required
\* field (the alias where one is declared) does not raise MissingField.
C5_SuppliedRaisesNoMissing ==
  (/\ pc = "decoded"
   /\ IsDict(raw0)
   /\ \A f \in FieldSet(cls) : f.req => SourceKeys(f, raw0.dict) # {})
  => ~(~out.ok /\ out.exc.type = "MissingField")

\* C5: both halves.
C5_RequiredFields == C5_AbsentRaisesMissing /\ C5_SuppliedRaisesNoMissing

----------------------------------------------------------------------------
\* C6: when a document decodes, the document with keys added that match no
\* field of the schema decodes too, to the same record.
C6_UnknownKeysIgnored ==
  (pc = "redecoded" /\ prev.ok) => (out.ok /\ out.val = prev.val)

C6_Witness ==
  /\ pc = "redecoded" /\ nadded >= 2
  /\ prev.ok /\ out.ok
  /\ ~AllNone(out.val)
  /\ \E k \in DOMAIN raw0.dict : IsUnknown(cls, k)

----------------------------------------------------------------------------
\* the raw strings stored in d for field f
RawStrings(f, d) == {d[k].str : k \in {x \in SourceKeys(f, d) : IsStr(d[x])}}

\* C7: a field with the Locked strategy decodes a raw string to true if and
\* only if the string is exactly "locked", and never fails on a string.
C7_LockedIffExact ==
  (pc = "decoded" /\ IsDict(raw0)) =>
    \A f \in FieldSet(cls) :
      f.kind = "Locked" =>
        \A s \in RawStrings(f, raw0.dict) :
          /\ out.ok => out.val.attrs[f.name]
                         = PyBool(s = <<"l","o","c","k","e","d">>)
          /\ ~out.ok => out.exc.field_name # f.name

C7_Witness ==
  /\ pc = "decoded" /\ cls = "AccessStatus" /\ IsDict(raw0)
  /\ doorLockStatus \in DOMAIN raw0.dict
  /\ raw0.dict[doorLockStatus] = PyStr(<<"L","o","c","k","e","d">>)
  /\ out.ok
  /\ out.val.attrs.door_lock_status = PyBool(FALSE)

\* C8: a field with the OnOff strategy decodes a raw string to false if and
\* only if the string is exactly "off", and never fails on a string.
C8_OnOffIffNotOff ==
  (pc = "decoded" /\ IsDict(raw0)) =>
    \A f \in FieldSet(cls) :
      f.kind = "OnOff" =>
        \A s \in RawStrings(f, raw0.dict) :
          /\ out.ok => out.val.attrs[f.name] = PyBool(s # <<"o","f","f">>)
          /\ ~out.ok => out.exc.field_name # f.name

C8_Witness ==
  /\ pc = "decoded" /\ cls = "ClimatisationStatus" /\ IsDict(raw0)
  /\ climatisationState \in DOMAIN raw0.dict
  /\ raw0.dict[climatisationState] = PyStr(<<"u","n","k","n","o","w","n">>)
  /\ out.ok
  /\ out.val.attrs.climatisation_state = PyBool(TRUE)

----------------------------------------------------------------------------
\* C9: a decode leaves the raw document, nested objects included, as it was,
\* whether it succeeds or fails; a second decode of the document gives the
\* same outcome; the encoding handed to a decode is left as it was too.
C9_NoSideEffects ==
  /\ OutIsOfRaw0 => raw = raw0
  /\ pc = "again" => out = prev
  /\ pc = "roundtrip" => enc = ToDict(out.val)

C9_Witness ==
  /\ pc = "again" /\ cls = "Charging" /\ IsDict(raw0)
  /\ batteryStatus \in DOMAIN raw0.dict
  /\ IsDict(raw0.dict[batteryStatus])
  /\ cruisingRangeElectricKm \in DOMAIN raw0.dict[batteryStatus].dict
  /\ out.ok /\ prev.ok
  /\ raw = raw0

----------------------------------------------------------------------------
\* an unaliased field whose name is in normal form
IsSnakeField(f) == f.alias = <<>> /\ camel2snake(f.json) = f.json

RECURSIVE Matched(_, _, _)
\* every key of object d (and of the objects nested in it) that names a
\* snake_case field of c populates that field of record o
Matched(c, d, o) ==
  \A f \in FieldSet(c) :
    IsSnakeField(f) =>
      \A k \in SourceKeys(f, d) :
        IF d[k] = None THEN o.attrs[f.name] = None
        ELSE /\ o.attrs[f.name] # None
             /\ (f.kind = "int" /\ IsInt(d[k])) => o.attrs[f.name] = d[k]
             /\ f.kind = "record" =>
                  /\ o.attrs[f.name].cls = f.of
                  /\ Matched(f.of, d[k].dict, o.attrs[f.name])

\* C10: the hook returns a value that is no mapping as it is, and it is
\* applied at every nesting level: a key naming a snake_case field after
\* normalization is matched to it at any depth.
C10_NormalizedAtEveryLevel ==
  pc = "decoded" =>
    /\ ~IsDict(raw0) => hooked = raw0
    /\ (IsDict(raw0) /\ out.ok) => Matched(cls, raw0.dict, out.val)

C10_Witness ==
  /\ pc = "decoded" /\ cls = "Model" /\ IsDict(raw0)
  /\ charging \in DOMAIN raw0.dict
  /\ IsDict(raw0.dict[charging])
  /\ batteryStatus \in DOMAIN raw0.dict[charging].dict
  /\ IsDict(raw0.dict[charging].dict[batteryStatus])
  /\ cruisingRangeElectricKm \in DOMAIN raw0.dict[charging].dict[batteryStatus].dict
  /\ out.ok
  /\ out.val.attrs.charging.attrs.battery_status.attrs.cruising_range_electric_km
       = PyInt(87)
=============================================================================
